---- MODULE Spec2Model ----
(***************************************************************************)
(* Control-flow model of tounn_example/tounn_fixed_beam.py: the reference  *)
(* solve, the training loop and the final writes.                          *)
(*                                                                         *)
(* Numbers.  volume_ratio, alpha, alpha_max and alpha_increment are        *)
(* decimal fractions in the script; here they are integers counting        *)
(* ten-thousandths (0.3 is 3000, 0.05 is 500), added and compared exactly. *)
(* nrm_threshold counts tenths.                                            *)
(*                                                                         *)
(* Numerical results.  Fields, energies, the objective and the loss are    *)
(* symbolic terms (tuples headed by a tag) built from what they were       *)
(* computed from, so two results are equal exactly when they were computed *)
(* from the same inputs.  The network parameters are identified by the     *)
(* number of optimizer steps applied to the initial weights.               *)
(*                                                                         *)
(* A Python name is modelled as <<>> while unbound and <<v>> once bound.   *)
(***************************************************************************)
EXTENDS Integers, Sequences, FiniteSets, TLC

\* ------------------------------------------------------------------ bounds
MaxEpochs == 5
MaxMinEpochs == 2

\* Volume ratios tried (ten-thousandths): two small ones whose alpha_max is
\* reached within MaxEpochs iterations (one a multiple of alpha_increment,
\* one not) and the script's own 0.3.
VolumeRatios == {12, 20, 3000}

\* --------------------------------------------------------------- constants
alpha_increment == 500
nrm_threshold_0 == 1

VARIABLES
  max_epochs,     \* line 52, parameter
  min_epochs,     \* line 51, parameter
  volume_ratio,   \* line 44, parameter
  nrm_threshold,  \* line 50
  pc,             \* position in the script
  it,             \* number of items the for loop has taken from its range
  epoch,          \* loop variable (a name: unbound before the first item)
  alpha,          \* penalty weight
  params,         \* network parameters: number of optimizer steps applied
  grads,          \* gradients held by the parameters
  density_new,    \* density_new_tt / density_new_np (a name)
  density,        \* FE density field
  u_sol,          \* FE displacement field
  psi_vector,     \* projected energy density (a name)
  objective,      \* objective tensor (a name)
  loss,           \* loss tensor (a name)
  loss_calls,     \* arguments of every loss_function call so far
  obj_0,          \* scaling reference (a name)
  training_data,  \* the training record (a name)
  xdmf,           \* frames written to the XDMF file
  csv,            \* rows of the CSV file (a name: unbound = not written)
  meta,           \* the metadata file (a name: unbound = not written)
  error,          \* "none" or the exception that aborted the run
  solves,         \* number of solver.solve() calls made
  order           \* the loop-body statements executed so far, <<statement, epoch>>

vars == <<max_epochs, min_epochs, volume_ratio, nrm_threshold, pc, it, epoch,
          alpha, params, grads, density_new, density, u_sol, psi_vector,
          objective, loss, loss_calls, obj_0, training_data, xdmf, csv, meta,
          error, solves, order>>

config == <<max_epochs, min_epochs, volume_ratio, nrm_threshold>>

\* ----------------------------------------------------------------- helpers
Unbound == <<>>
Bound(v) == <<v>>
Val(n) == n[1]
IsBound(n) == n # <<>>

Min(a, b) == IF a <= b THEN a ELSE b

\* a range that starts one item early
Range_FromZero(a, b) == [i \in 1..(IF b > a - 1 THEN b - a + 1 ELSE 0) |-> a + i - 2]
\* range(a, b): the items a, a+1, ..., b-1 (empty when b <= a)
Range(a, b) == [i \in 1..(IF b > a THEN b - a ELSE 0) |-> a + i - 1]

\* line 59
alpha_max == 100 * volume_ratio

\* Function(D): a new FE function holds zeros (lines 75-76)
ZeroField == <<"zero">>
\* density.vector()[:] = 0.5 (line 113)
UniformField == <<"uniform", 5>>
\* top_optimizer(mid_points) with parameters after p steps (lines 143-146)
Predict(p) == <<"nn", p>>
\* solver.solve(): displacement for density field d (lines 89-91, 115, 150)
SolveFE(d) == <<"u", d>>
\* project(psi(u_sol), D).vector()[:] (lines 117, 153)
Psi(u) == <<"psi", u>>
\* line 118
Obj0(vr, psi0) == <<"obj0", vr, psi0>>
\* line 156
Objective(d, psi) == <<"objective", d, psi>>
\* np.average (lines 124, 182)
Average(d) == <<"avg", d>>
\* float(objective.sum()) (line 181)
ObjectiveSum(o) == <<"sum", o>>

\* loss_function(density_new_tt, objective, vol_fraction, penal, obj_0,
\*               alpha, volumes) (line 159)
LossCall(e, d, o, o0, a) ==
  [epoch |-> e, density |-> d, objective |-> o, obj_0 |-> o0, alpha |-> a]

\* the cap applied before the increment instead of after it
AlphaUpdate_CapFirst(a) == Min(alpha_max, a) + alpha_increment
\* the increment without the cap
AlphaUpdate_NoCap(a) == a + alpha_increment
\* line 165
AlphaUpdate(a) == Min(alpha_max, a + alpha_increment)

\* torch.nn.utils.clip_grad_norm_ (line 169)
Clip(g, thr) ==
  IF g[1] = "clipped" THEN <<"clipped", thr, g[3] + 1>>
  ELSE <<"clipped", thr, 1>>

\* the statements of the loop body, in source order (lines 140-190)
Body == <<"zero_grad", "predict", "assign", "solve", "project", "loss",
          "backward", "alpha", "clip", "step", "xdmf", "append", "print">>

\* the statement after p in the statement list B; the loop head after the last
SuccIn(B, p) ==
  LET i == CHOOSE k \in 1..Len(B) : B[k] = p
  IN  IF i = Len(B) THEN "for" ELSE B[i + 1]

\* optimizer.step() placed before clip_grad_norm_
Body_StepBeforeClip ==
  <<"zero_grad", "predict", "assign", "solve", "project", "loss",
    "backward", "alpha", "step", "clip", "xdmf", "append", "print">>
Succ_StepBeforeClip(p) == SuccIn(Body_StepBeforeClip, p)

\* the alpha update placed after optimizer.step()
Body_AlphaAfterStep ==
  <<"zero_grad", "predict", "assign", "solve", "project", "loss",
    "backward", "clip", "step", "alpha", "xdmf", "append", "print">>
Succ_AlphaAfterStep(p) == SuccIn(Body_AlphaAfterStep, p)

\* optimizer.step() placed at the top of the body, before the prediction
Body_StepFirst ==
  <<"zero_grad", "step", "predict", "assign", "solve", "project", "loss",
    "backward", "alpha", "clip", "xdmf", "append", "print">>
Succ_StepFirst(p) == SuccIn(Body_StepFirst, p)

\* the statement after p in the loop body
Succ(p) == SuccIn(Body, p)

\* ------------------------------------------------------------------- Init
Init ==
  /\ max_epochs \in 0..MaxEpochs
  /\ min_epochs \in 0..MaxMinEpochs
  /\ volume_ratio \in VolumeRatios
  /\ nrm_threshold = nrm_threshold_0
  /\ pc = "ref_assign"
  /\ it = 0
  /\ epoch = Unbound
  /\ alpha = alpha_increment
  /\ params = 0
  /\ grads = <<"none">>
  /\ density_new = Unbound
  /\ density = ZeroField
  /\ u_sol = ZeroField
  /\ psi_vector = Unbound
  /\ objective = Unbound
  /\ loss = Unbound
  /\ loss_calls = <<>>
  /\ obj_0 = Unbound
  /\ training_data = Unbound
  /\ xdmf = <<>>
  /\ csv = Unbound
  /\ meta = Unbound
  /\ error = "none"
  /\ solves = 0
  /\ order = <<>>

\* ------------------------------------------------ before the loop (111-124)
\* line 113
RefAssign ==
  /\ pc = "ref_assign"
  /\ density' = UniformField
  /\ pc' = "ref_solve"
  /\ UNCHANGED <<config, it, epoch, alpha, params, grads, density_new, u_sol,
                 psi_vector, objective, loss, loss_calls, obj_0,
                 training_data, xdmf, csv, meta, error, solves, order>>

\* line 115
RefSolve ==
  /\ pc = "ref_solve"
  /\ u_sol' = SolveFE(density)
  /\ solves' = solves + 1
  /\ pc' = "ref_obj"
  /\ UNCHANGED <<config, it, epoch, alpha, params, grads, density_new,
                 density, psi_vector, objective, loss, loss_calls, obj_0,
                 training_data, xdmf, csv, meta, error, order>>

\* lines 117-118
RefObjective ==
  /\ pc = "ref_obj"
  /\ obj_0' = Bound(Obj0(volume_ratio, Psi(u_sol)))
  /\ pc' = "ref_log"
  /\ UNCHANGED <<config, it, epoch, alpha, params, grads, density_new,
                 density, u_sol, psi_vector, objective, loss, loss_calls,
                 training_data, xdmf, csv, meta, error, solves, order>>

\* lines 121-124
RefLog ==
  /\ pc = "ref_log"
  /\ xdmf' = Append(xdmf, <<density, 0>>)
  /\ training_data' = Bound(<< <<0, Val(obj_0), Average(density)>> >>)
  /\ pc' = "for"
  /\ UNCHANGED <<config, it, epoch, alpha, params, grads, density_new,
                 density, u_sol, psi_vector, objective, loss, loss_calls,
                 obj_0, csv, meta, error, solves, order>>

\* ------------------------------------------------------ the loop (137-190)
\* line 137: take the next item of range(1, max_epochs), or leave the loop
For ==
  /\ pc = "for"
  /\ IF it < Len(Range(1, max_epochs))
     THEN /\ epoch' = Bound(Range(1, max_epochs)[it + 1])
          /\ it' = it + 1
          /\ pc' = Body[1]
     ELSE /\ pc' = "write_csv"
          /\ UNCHANGED <<epoch, it>>
  /\ UNCHANGED <<config, order, alpha, params, grads, density_new, density, u_sol,
                 psi_vector, objective, loss, loss_calls, obj_0,
                 training_data, xdmf, csv, meta, error, solves>>

\* line 140
ZeroGrad ==
  /\ pc = "zero_grad"
  /\ grads' = <<"zero">>
  /\ order' = Append(order, <<"zero_grad", Val(epoch)>>)
  /\ pc' = Succ("zero_grad")
  /\ UNCHANGED <<config, it, epoch, alpha, params, density_new, density,
                 u_sol, psi_vector, objective, loss, loss_calls, obj_0,
                 training_data, xdmf, csv, meta, error, solves>>

\* lines 143-146
PredictDensity ==
  /\ pc = "predict"
  /\ density_new' = Bound(Predict(params))
  /\ order' = Append(order, <<"predict", Val(epoch)>>)
  /\ pc' = Succ("predict")
  /\ UNCHANGED <<config, it, epoch, alpha, params, grads, density, u_sol,
                 psi_vector, objective, loss, loss_calls, obj_0,
                 training_data, xdmf, csv, meta, error, solves>>

\* line 149
AssignDensity ==
  /\ pc = "assign"
  /\ density' = Val(density_new)
  /\ order' = Append(order, <<"assign", Val(epoch)>>)
  /\ pc' = Succ("assign")
  /\ UNCHANGED <<config, it, epoch, alpha, params, grads, density_new, u_sol,
                 psi_vector, objective, loss, loss_calls, obj_0,
                 training_data, xdmf, csv, meta, error, solves>>

\* line 150
SolveStep ==
  /\ pc = "solve"
  /\ u_sol' = SolveFE(density)
  /\ solves' = solves + 1
  /\ order' = Append(order, <<"solve", Val(epoch)>>)
  /\ pc' = Succ("solve")
  /\ UNCHANGED <<config, it, epoch, alpha, params, grads, density_new,
                 density, psi_vector, objective, loss, loss_calls, obj_0,
                 training_data, xdmf, csv, meta, error>>

\* lines 115, 150: the solver raises (singular system); nothing catches it
SolveFails ==
  /\ pc \in {"ref_solve", "solve"}
  /\ solves' = solves + 1
  /\ error' = "RuntimeError"
  /\ pc' = "aborted"
  /\ UNCHANGED <<config, it, epoch, alpha, params, grads, density_new,
                 density, u_sol, psi_vector, objective, loss, loss_calls,
                 obj_0, training_data, xdmf, csv, meta, order>>

\* the projection step also recomputing the scaling reference
Project_RecomputesObj0 ==
  /\ pc = "project"
  /\ psi_vector' = Bound(Psi(u_sol))
  /\ objective' = Bound(Objective(Val(density_new), Psi(u_sol)))
  /\ obj_0' = Bound(Obj0(volume_ratio, Psi(u_sol)))
  /\ order' = Append(order, <<"project", Val(epoch)>>)
  /\ pc' = Succ("project")
  /\ UNCHANGED <<config, it, epoch, alpha, params, grads, density_new,
                 density, u_sol, loss, loss_calls, training_data,
                 xdmf, csv, meta, error, solves>>

\* lines 153-156
Project ==
  /\ pc = "project"
  /\ psi_vector' = Bound(Psi(u_sol))
  /\ objective' = Bound(Objective(Val(density_new), Psi(u_sol)))
  /\ order' = Append(order, <<"project", Val(epoch)>>)
  /\ pc' = Succ("project")
  /\ UNCHANGED <<config, it, epoch, alpha, params, grads, density_new,
                 density, u_sol, loss, loss_calls, obj_0, training_data,
                 xdmf, csv, meta, error, solves>>

\* line 159
ComputeLoss ==
  /\ pc = "loss"
  /\ LET call == LossCall(Val(epoch), Val(density_new), Val(objective),
                          Val(obj_0), alpha)
     IN  /\ loss_calls' = Append(loss_calls, call)
         /\ loss' = Bound(<<"loss", Val(epoch)>>)
  /\ order' = Append(order, <<"loss", Val(epoch)>>)
  /\ pc' = Succ("loss")
  /\ UNCHANGED <<config, it, epoch, alpha, params, grads, density_new,
                 density, u_sol, psi_vector, objective, obj_0, training_data,
                 xdmf, csv, meta, error, solves>>

\* line 162
Backward ==
  /\ pc = "backward"
  /\ grads' = <<"raw">>
  /\ order' = Append(order, <<"backward", Val(epoch)>>)
  /\ pc' = Succ("backward")
  /\ UNCHANGED <<config, it, epoch, alpha, params, density_new, density,
                 u_sol, psi_vector, objective, loss, loss_calls, obj_0,
                 training_data, xdmf, csv, meta, error, solves>>

\* lines 164-165
UpdateAlpha ==
  /\ pc = "alpha"
  /\ alpha' = AlphaUpdate(alpha)
  /\ order' = Append(order, <<"alpha", Val(epoch)>>)
  /\ pc' = Succ("alpha")
  /\ UNCHANGED <<config, it, epoch, params, grads, density_new, density,
                 u_sol, psi_vector, objective, loss, loss_calls, obj_0,
                 training_data, xdmf, csv, meta, error, solves>>

\* line 169
ClipGradNorm ==
  /\ pc = "clip"
  /\ grads' = Clip(grads, nrm_threshold)
  /\ order' = Append(order, <<"clip", Val(epoch)>>)
  /\ pc' = Succ("clip")
  /\ UNCHANGED <<config, it, epoch, alpha, params, density_new, density,
                 u_sol, psi_vector, objective, loss, loss_calls, obj_0,
                 training_data, xdmf, csv, meta, error, solves>>

\* an optimizer step that is applied twice
OptimizerStep_Twice ==
  /\ pc = "step"
  /\ params' = params + 2
  /\ order' = Append(order, <<"step", Val(epoch)>>)
  /\ pc' = Succ("step")
  /\ UNCHANGED <<config, it, epoch, alpha, grads, density_new, density,
                 u_sol, psi_vector, objective, loss, loss_calls, obj_0,
                 training_data, xdmf, csv, meta, error, solves>>

\* line 171
OptimizerStep ==
  /\ pc = "step"
  /\ params' = params + 1
  /\ order' = Append(order, <<"step", Val(epoch)>>)
  /\ pc' = Succ("step")
  /\ UNCHANGED <<config, it, epoch, alpha, grads, density_new, density,
                 u_sol, psi_vector, objective, loss, loss_calls, obj_0,
                 training_data, xdmf, csv, meta, error, solves>>

\* line 178
WriteFrame ==
  /\ pc = "xdmf"
  /\ xdmf' = Append(xdmf, <<density, Val(epoch)>>)
  /\ order' = Append(order, <<"xdmf", Val(epoch)>>)
  /\ pc' = Succ("xdmf")
  /\ UNCHANGED <<config, it, epoch, alpha, params, grads, density_new,
                 density, u_sol, psi_vector, objective, loss, loss_calls,
                 obj_0, training_data, csv, meta, error, solves>>

\* lines 181-185
AppendRecord ==
  /\ pc = "append"
  /\ training_data' =
       Bound(Append(Val(training_data),
                    <<Val(epoch), ObjectiveSum(Val(objective)),
                      Average(Val(density_new))>>))
  /\ order' = Append(order, <<"append", Val(epoch)>>)
  /\ pc' = Succ("append")
  /\ UNCHANGED <<config, it, epoch, alpha, params, grads, density_new,
                 density, u_sol, psi_vector, objective, loss, loss_calls,
                 obj_0, xdmf, csv, meta, error, solves>>

\* lines 188-190 (log_interval is 1, so the test holds in every epoch)
PrintInfo ==
  /\ pc = "print"
  /\ order' = Append(order, <<"print", Val(epoch)>>)
  /\ pc' = Succ("print")
  /\ UNCHANGED <<config, it, epoch, alpha, params, grads, density_new,
                 density, u_sol, psi_vector, objective, loss, loss_calls,
                 obj_0, training_data, xdmf, csv, meta, error, solves>>

\* ------------------------------------------------- after the loop (192-215)
\* utils.write_to_csv: one row per record
CsvRows(data) == data

\* utils.write_optimization_data: the parameters handed over
MetaData(params_dict) == params_dict

\* line 200
WriteCsv ==
  /\ pc = "write_csv"
  /\ csv' = Bound(CsvRows(Val(training_data)))
  /\ pc' = "write_meta"
  /\ UNCHANGED <<config, it, epoch, alpha, params, grads, density_new,
                 density, u_sol, psi_vector, objective, loss, loss_calls,
                 obj_0, training_data, xdmf, meta, error, solves, order>>

\* lines 203-215: the dictionary is built first; reading the name epoch
\* raises NameError when the loop never bound it
WriteMeta ==
  /\ pc = "write_meta"
  /\ IF IsBound(epoch)
     THEN /\ meta' = Bound(MetaData([volume_ratio |-> volume_ratio,
                                     max_epochs |-> max_epochs,
                                     min_epochs |-> min_epochs,
                                     epochs |-> Val(epoch),
                                     nrm_threshold |-> nrm_threshold]))
          /\ pc' = "done"
          /\ UNCHANGED error
     ELSE /\ error' = "NameError"
          /\ pc' = "aborted"
          /\ UNCHANGED meta
  /\ UNCHANGED <<config, it, epoch, alpha, params, grads, density_new,
                 density, u_sol, psi_vector, objective, loss, loss_calls,
                 obj_0, training_data, xdmf, csv, solves, order>>

Next ==
  \/ RefAssign
  \/ RefSolve
  \/ RefObjective
  \/ RefLog
  \/ For
  \/ ZeroGrad
  \/ PredictDensity
  \/ AssignDensity
  \/ SolveStep
  \/ SolveFails
  \/ Project
  \/ ComputeLoss
  \/ Backward
  \/ UpdateAlpha
  \/ ClipGradNorm
  \/ OptimizerStep
  \/ WriteFrame
  \/ AppendRecord
  \/ PrintInfo
  \/ WriteCsv
  \/ WriteMeta

Spec == Init /\ [][Next]_vars

\* ===================================================================== claims
InBody == \E k \in 1..Len(Body) : Body[k] = pc
BeforeLoop == pc \in {"ref_assign", "ref_solve", "ref_obj", "ref_log"}
AfterLoop == pc \in {"write_csv", "write_meta", "done"}

\* the statements of one iteration that the ordering claims name
Named == {"predict", "assign", "solve", "loss", "backward", "alpha", "clip",
          "step", "append", "print"}
IsNamed(x) == x[1] \in Named
RECURSIVE Iterations(_, _)
\* the sequence O repeated for epochs 1..n, each statement tagged with its epoch
Iterations(O, n) ==
  IF n = 0 THEN <<>>
  ELSE Iterations(O, n - 1) \o [i \in 1..Len(O) |-> <<O[i], n>>]
IsPrefix(s, t) == Len(s) <= Len(t) /\ SubSeq(t, 1, Len(s)) = s

\* C1: alpha never exceeds alpha_max = 100 x volume_ratio, before the loop and
\* after any number of iterations, and no step of the run lowers it.
C1_AlphaBoundedMonotone ==
  [](alpha <= alpha_max) /\ [][alpha' >= alpha]_vars
\* the cap has been applied and held: an update at the cap left alpha there
C1_Witness ==
  /\ pc = "clip"
  /\ Val(epoch) >= 3
  /\ alpha = alpha_max
  /\ alpha < (Val(epoch) + 1) * alpha_increment

\* C2 (as stated): every iteration runs predict, assign, solve, loss, backward,
\* clip, optimizer step, alpha update, log, in this order.
ClaimedOrder == <<"predict", "assign", "solve", "loss", "backward", "clip",
                  "step", "alpha", "append", "print">>
C2_ClaimedOrder ==
  (pc = "for") => SelectSeq(order, IsNamed) = Iterations(ClaimedOrder, it)
\* C2 (amended): every iteration runs predict, assign, solve, loss, backward,
\* alpha update, clip, optimizer step, log, in this order; the alpha update
\* precedes the clipping and the optimizer step of its epoch, and no statement
\* of an iteration runs before the logging of the previous one.
CodeOrder == <<"predict", "assign", "solve", "loss", "backward", "alpha",
               "clip", "step", "append", "print">>
C2_CodeOrder ==
  /\ IsPrefix(SelectSeq(order, IsNamed), Iterations(CodeOrder, it))
  /\ (pc = "for" \/ AfterLoop) =>
        SelectSeq(order, IsNamed) = Iterations(CodeOrder, it)
C2_Witness == pc = "for" /\ it = 2 /\ Len(order) = 2 * Len(Body)

\* C3: after k completed iterations the solver has run k times in the loop,
\* plus the one reference solve, and the parameters have been updated k
\* times; inside iteration k the counts are those of k-1 or k iterations.
C3_OneSolveOneStep ==
  /\ (pc = "for" \/ AfterLoop) => (solves = 1 + it /\ params = it)
  /\ InBody => /\ solves \in {it, it + 1}
               /\ params \in {it - 1, it}
               /\ (pc = "print" => solves = 1 + it /\ params = it)
C3_Witness == pc = "for" /\ it = 3 /\ solves = 4 /\ params = 3

\* C4 (as stated): a run in which no step fails does not abort, and it
\* terminates only when the epoch count has reached max_epochs, after
\* max_epochs completed epochs.
C4_TerminatesAtMaxEpochs ==
  /\ (pc = "done") => (it = max_epochs /\ Val(epoch) = max_epochs)
  /\ (pc = "aborted") => error = "RuntimeError"

\* C5 (as stated): a run whose loop is never entered completes without error,
\* with a one-row CSV file and a metadata file.
C5_ZeroEpochsCompletes ==
  (pc \in {"done", "aborted"} /\ it = 0 /\ error # "RuntimeError") =>
     /\ error = "none"
     /\ IsBound(csv) /\ Len(Val(csv)) = 1
     /\ IsBound(meta)

\* C6: before the loop and at the end of every completed iteration e the
\* training record holds e+1 entries with epoch indices 0, 1, ..., e in this
\* order, and the XDMF file holds one frame for each of these indices.
C6_RecordsAndFrames ==
  (pc = "for" \/ AfterLoop) =>
     /\ IsBound(training_data)
     /\ Len(Val(training_data)) = it + 1
     /\ \A i \in 1..(it + 1) : Val(training_data)[i][1] = i - 1
     /\ Len(xdmf) = it + 1
     /\ \A i \in 1..(it + 1) : xdmf[i][2] = i - 1
C6_Witness ==
  pc = "for" /\ it = 3 /\ Len(xdmf) = 4 /\ Len(Val(training_data)) = 4

\* C7: obj_0 is computed once, before the first iteration, from the reference
\* solve; no later step changes it, and every loss call receives that value.
ReferenceObj0 == Obj0(volume_ratio, Psi(SolveFE(UniformField)))
C7_Obj0Fixed ==
  /\ []((~BeforeLoop /\ pc # "aborted") => obj_0 = Bound(ReferenceObj0))
  /\ [](\A i \in 1..Len(loss_calls) : loss_calls[i].obj_0 = ReferenceObj0)
  /\ [][IsBound(obj_0) => obj_0' = obj_0]_vars
C7_Witness ==
  /\ pc = "backward"
  /\ Len(loss_calls) = 3
  /\ u_sol # SolveFE(UniformField)
  /\ loss_calls[3].obj_0 = Val(obj_0)

\* C8: the optimizer steps only on gradients that were clipped exactly once,
\* to nrm_threshold, since the backward pass of the same epoch; the threshold
\* never changes.
C8_ClipBeforeStep ==
  /\ [][params' # params => grads = <<"clipped", nrm_threshold_0, 1>>]_vars
  /\ [][(grads' # grads /\ grads'[1] = "clipped") => grads = <<"raw">>]_vars
  /\ [][(pc = "for" /\ pc' = "zero_grad" /\ it > 0) => grads[1] = "clipped"]_vars
  /\ [][nrm_threshold' = nrm_threshold]_vars
C8_Witness ==
  /\ pc = "xdmf"
  /\ params = 2
  /\ grads = <<"clipped", nrm_threshold, 1>>

\* C9: alpha starts at alpha_increment and the loss of epoch e (e >= 1)
\* receives min(alpha_max, e * alpha_increment).
C9_AlphaSchedule ==
  /\ BeforeLoop => alpha = alpha_increment
  /\ \A i \in 1..Len(loss_calls) :
        /\ loss_calls[i].epoch = i
        /\ loss_calls[i].alpha = Min(alpha_max, i * alpha_increment)
C9_Witness ==
  \E i \in 1..Len(loss_calls) :
     /\ i * alpha_increment > alpha_max
     /\ loss_calls[i].alpha = alpha_max
     /\ alpha_max % alpha_increment # 0

\* C10: the density assigned, solved, written as frame e and logged as record
\* e is the prediction of the parameters after e-1 updates, and the
\* parameters left by the last optimizer step are used by no prediction,
\* solve, frame or record.
RecordOf(d, e) ==
  <<e, ObjectiveSum(Objective(d, Psi(SolveFE(d)))), Average(d)>>
C10_DensityFromPreviousParams ==
  /\ \A i \in 2..Len(xdmf) : xdmf[i] = <<Predict(i - 2), i - 1>>
  /\ IsBound(training_data) =>
        \A i \in 2..Len(Val(training_data)) :
           Val(training_data)[i] = RecordOf(Predict(i - 2), i - 1)
  /\ \A i \in 1..Len(loss_calls) : loss_calls[i].density = Predict(i - 1)
  /\ (AfterLoop /\ it > 0) =>
        /\ params = it
        /\ density = Predict(params - 1)
        /\ u_sol = SolveFE(Predict(params - 1))
        /\ \A i \in 1..Len(xdmf) : xdmf[i][1] # Predict(params)
        /\ \A i \in 1..Len(Val(training_data)) :
              Val(training_data)[i] # RecordOf(Predict(params), i - 1)
C10_Witness ==
  /\ pc = "done"
  /\ params = 3
  /\ xdmf[Len(xdmf)] = <<Predict(2), 3>>

====
